---------------------------- MODULE Spec2Model ----------------------------
(***************************************************************************)
(* Model of GeminiWrapper (src/src/llms/gemini_wrapper.py): the bounded    *)
(* retry loop with exponential backoff shared by vibe_eval_statement and   *)
(* vibe_call_function, the boolean interpretation of a response text, the  *)
(* typed interpretation of a simulated function result, and the failure    *)
(* raised on exhaustion.                                                   *)
(*                                                                         *)
(* A text is a sequence of one-character strings.  Durations are integers  *)
(* in an arbitrary time unit (the code multiplies by powers of two and     *)
(* takes a minimum, both exact on the floats the configuration holds).     *)
(***************************************************************************)
EXTENDS Integers, Sequences, FiniteSets, TLC

(* ------------------------------ bounds --------------------------------- *)

MaxTries == 3

MaxRetries == 2

MaxBackoffBase == 2

MaxBackoffMax == 2

(* ------------------------- small arithmetic ---------------------------- *)

Max2(a, b) == IF a >= b THEN a ELSE b

Min2(a, b) == IF a <= b THEN a ELSE b

SetMin(S) == CHOOSE x \in S : \A y \in S : x <= y

SetMax(S) == CHOOSE x \in S : \A y \in S : x >= y

(* --------------------------- response texts ---------------------------- *)

Txt_YesTrue ==
    <<"Y", "e", "s", ",", " ", "T", "r", "u", "e", ".">>
Txt_BelieveFalse ==
    <<"I", " ", "b", "e", "l", "i", "e", "v", "e", " ", "t", "h", "i", "s", " ", "i", "s", " ", "f", "a", "l", "s", "e", ".">>
Txt_Unsure ==
    <<"u", "n", "s", "u", "r", "e">>
Txt_TrueAndFalse ==
    <<"t", "r", "u", "e", " ", "a", "n", "d", " ", "f", "a", "l", "s", "e", " ", "a", "r", "e", " ", "b", "o", "t", "h", " ", "p", "o", "s", "s", "i", "b", "l", "e">>
Txt_FalseThenTrue ==
    <<"F", "A", "L", "S", "E", ",", " ", "n", "o", "t", " ", "t", "r", "u", "e">>
Txt_Empty ==
    <<>>
Txt_Digits ==
    <<" ", "4", "2", "\n">>
Txt_Words ==
    <<"f", "o", "r", "t", "y", "-", "t", "w", "o">>
Txt_Hello ==
    <<" ", "h", "e", "l", "l", "o", " ">>
Txt_False ==
    <<"F", "a", "l", "s", "e">>

Texts ==
    {Txt_YesTrue, Txt_BelieveFalse, Txt_Unsure, Txt_TrueAndFalse,
     Txt_FalseThenTrue, Txt_Empty, Txt_Digits, Txt_Words, Txt_Hello,
     Txt_False}

\* A response object of the client: its text attribute may be absent (None).
NoTextResponse == [has_text |-> FALSE, text |-> <<>>]

Responses == {[has_text |-> TRUE, text |-> t] : t \in Texts} \cup {NoTextResponse}

\* The local variable `response` before any round trip has returned.
NoResponse == [has_text |-> FALSE, text |-> <<"<unbound>">>]

(* ------------------------- str methods used ---------------------------- *)

UpperAlpha ==
    <<"A", "B", "C", "D", "E", "F", "G", "H", "I", "J", "K", "L", "M",
      "N", "O", "P", "Q", "R", "S", "T", "U", "V", "W", "X", "Y", "Z">>

LowerAlpha ==
    <<"a", "b", "c", "d", "e", "f", "g", "h", "i", "j", "k", "l", "m",
      "n", "o", "p", "q", "r", "s", "t", "u", "v", "w", "x", "y", "z">>

Whitespace == {" ", "\t", "\n", "\r", "\f"}

Digits == <<"0", "1", "2", "3", "4", "5", "6", "7", "8", "9">>

LowerChar(c) ==
    IF \E i \in 1..26 : UpperAlpha[i] = c
    THEN LowerAlpha[CHOOSE i \in 1..26 : UpperAlpha[i] = c]
    ELSE c

\* str.lower()
LowerStr(s) == [i \in 1..Len(s) |-> LowerChar(s[i])]

\* str.strip()
Strip(s) ==
    LET keep == {i \in 1..Len(s) : s[i] \notin Whitespace}
    IN  IF keep = {} THEN <<>> ELSE SubSeq(s, SetMin(keep), SetMax(keep))

\* `w in s` for str operands
Contains(s, w) ==
    \E i \in 1..(Len(s) - Len(w) + 1) : SubSeq(s, i, i + Len(w) - 1) = w

Str_true == <<"t", "r", "u", "e">>

Str_false == <<"f", "a", "l", "s", "e">>

TextOrNoneStr(r) == IF r.has_text THEN r.text ELSE <<"N", "o", "n", "e">>

\* getattr(response, "text", None) or ""
TextOrEmpty(r) == IF r.has_text THEN r.text ELSE <<>>

(* ------------------------------ values --------------------------------- *)

VBool(b) == [tag |-> "bool", val |-> b]

VStr(s) == [tag |-> "str", val |-> s]

VInt(n) == [tag |-> "int", val |-> n]

NoValue == [tag |-> "unset", val |-> 0]

(* -------------------- statement evaluation (boolean) ------------------- *)

\* output_text of vibe_eval_statement
EvalOutputText(r) == Strip(LowerStr(TextOrEmpty(r)))

EvalVerdictFalseFirst(r) ==
    LET output_text == EvalOutputText(r)
    IN  IF Contains(output_text, Str_false) THEN VBool(FALSE)
        ELSE IF Contains(output_text, Str_true) THEN VBool(TRUE)
        ELSE NoValue

\* The two `in` tests of vibe_eval_statement, in the order of the code;
\* NoValue stands for falling through both.
EvalVerdict(r) ==
    LET output_text == EvalOutputText(r)
    IN  IF Contains(output_text, Str_true) THEN VBool(TRUE)
        ELSE IF Contains(output_text, Str_false) THEN VBool(FALSE)
        ELSE NoValue

(* ------------------- function simulation (typed result) ---------------- *)

\* Return annotations of the signatures called: inspect.Signature.empty,
\* the annotation None (def f() -> None), and three classes.
Annotations == {"empty", "None", "int", "str", "bool"}

\* return_type of vibe_call_function; the string "None" is Python's None.
ReturnTypeOf(ann) == IF ann = "empty" THEN "None" ELSE ann

\* The truth value of return_type that decides the "Return Type" line.
ReturnTypeLine(return_type) == return_type # "None"

DigitVal(c) == (CHOOSE i \in 1..10 : Digits[i] = c) - 1

IsDigit(c) == \E i \in 1..10 : Digits[i] = c

RECURSIVE ParseDigits(_)
ParseDigits(s) ==
    IF Len(s) = 0 THEN 0
    ELSE 10 * ParseDigits(SubSeq(s, 1, Len(s) - 1)) + DigitVal(s[Len(s)])

IsIntLiteral(s) ==
    LET body == IF Len(s) > 0 /\ s[1] \in {"+", "-"} THEN Tail(s) ELSE s
    IN  Len(body) > 0 /\ \A i \in 1..Len(body) : IsDigit(body[i])

ParseInt(s) ==
    IF s[1] = "-" THEN 0 - ParseDigits(Tail(s))
    ELSE IF s[1] = "+" THEN ParseDigits(Tail(s))
    ELSE ParseDigits(s)

\* LlmWrapper._maybe_coerce: numeric parsing, boolean parsing, textual
\* pass-through; a text that does not parse stays a str.
MaybeCoerce(raw_text, return_type) ==
    IF return_type = "int" /\ IsIntLiteral(raw_text) THEN VInt(ParseInt(raw_text))
    ELSE IF return_type = "bool" /\ LowerStr(raw_text) = Str_true THEN VBool(TRUE)
    ELSE IF return_type = "bool" /\ LowerStr(raw_text) = Str_false THEN VBool(FALSE)
    ELSE VStr(raw_text)

\* LlmWrapper._is_match: the value is an instance of the declared type.
IsMatch(value, return_type) == value.tag = return_type

\* raw_text of vibe_call_function
CallRawText(r) == Strip(TextOrEmpty(r))

(* --------------------------- configuration ----------------------------- *)

\* VibeCheckConfig values the wrapper is constructed with.  num_tries and
\* max_retries range over the documented values (>= 1, >= 0) and over the
\* values just below them; the backoff knobs satisfy
\* 0 < backoff_base <= backoff_max.
Configs ==
    {c \in [num_tries : (0 - 1)..MaxTries,
            max_retries : (0 - 2)..MaxRetries,
            backoff_base : 1..MaxBackoffBase,
            backoff_max : 1..MaxBackoffMax] : c.backoff_base <= c.backoff_max}

TotalTriesRetriesOnly(cfg) == cfg.max_retries + 1

\* total_tries = max(self.config.num_tries, self.config.max_retries + 1)
TotalTries(cfg) == Max2(cfg.num_tries, cfg.max_retries + 1)

BackoffDelayFromZero(cfg, i) == Min2(cfg.backoff_base * (2 ^ i), cfg.backoff_max)

\* delay = min(backoff_base * (2 ** (attempt - 1)), backoff_max)
BackoffDelay(cfg, i) == Min2(cfg.backoff_base * (2 ^ (i - 1)), cfg.backoff_max)

(* ------------------------------ failures ------------------------------- *)

NoExc == [cls |-> "none", msg |-> <<>>]

\* raise VibeResponseTypeException("Unable to get a valid response from the Gemini API.")
EvalFailure ==
    [cls |-> "VibeResponseTypeException",
     msg |-> <<"Unable to get a valid response from the Gemini API.">>]

CallFailureGeneric(rt) == EvalFailure

\* raise VibeResponseTypeException(f"Unable to get a valid response matching {return_type!r} from the Gemini API.")
CallFailure(rt) ==
    [cls |-> "VibeResponseTypeException",
     msg |-> <<"Unable to get a valid response matching ", rt, " from the Gemini API.">>]

(* ------------------------------ log lines ------------------------------ *)

LogLine(line, i, total, d, reason) ==
    [line |-> line, attempt |-> i, total |-> total, delay |-> d, reason |-> reason]

\* "[Attempt {attempt}/{total_tries}] ..."
AttemptLine(i, total) == LogLine("attempt", i, total, 0, "")

\* "API error on attempt {attempt}: ..."
ApiErrorLine(i) == LogLine("api error", i, 0, 0, "")

\* "Response (... ms): ..." and "Function call raw response (... ms): ..."
ResponseLine(i) == LogLine("response", i, 0, 0, "")

\* "Response did not match expected type; retrying..."
MismatchLine(i) == LogLine("mismatch", i, 0, 0, "")

\* "Backing off for {delay:.2f}s before retry ({reason})"
BackoffLine(i, d, reason) == LogLine("backoff", i, 0, d, reason)

(* ------------------------------- state --------------------------------- *)

VARIABLES
    client,            \* self.client
    model,             \* self.model
    config,            \* self.config
    pc,                \* position of the running call
    op,                \* "eval" | "call": the operation in progress
    return_annotation, \* func_signature.return_annotation
    return_type,       \* local return_type
    prompt,            \* the payload sent on each round trip
    total_tries,       \* local total_tries
    attempt,           \* loop variable of range(1, total_tries + 1)
    response,          \* local response
    delay,             \* local delay
    sleep_reason,      \* reason named in the backoff log line
    result,            \* value returned to the caller
    exc,               \* exception that reached the caller
    outcome,           \* "running" | "returned" | "raised"
    trips,             \* generate_content calls made by this call
    slept,             \* durations of the time.sleep calls of this call
    nErrors,           \* attempts of this call whose round trip raised
    nRejects,          \* attempts of this call rejected by interpretation
    raises,            \* exceptions this call let reach the caller
    last_outcome,      \* outcome of the latest attempt
    type_checked,      \* the returned value went through _is_match
    log,               \* console_logger.debug lines of this call
    prev_outcome       \* how the previous call on this wrapper ended

wrapper == <<client, model, config>>

vars ==
    <<client, model, prev_outcome, log, config, pc, op, return_annotation,
      return_type, prompt, total_tries, attempt, response, delay,
      sleep_reason, result, exc, outcome, trips, slept, nErrors, nRejects, raises, last_outcome, type_checked>>

locals ==
    <<response, delay, sleep_reason, result, exc, outcome, trips, slept,
      nErrors, nRejects, raises, last_outcome, type_checked>>

signature == <<op, return_annotation, return_type, prompt, total_tries>>

\* GeminiWrapper.__init__: the wrapper holds its configuration; no call yet.
Init ==
    /\ client = "genai.Client"
    /\ model = "model"
    /\ config \in Configs
    /\ log = <<>>
    /\ prev_outcome = "none"
    /\ pc = "idle"
    /\ op = "none"
    /\ return_annotation = "empty"
    /\ return_type = "None"
    /\ prompt = [kind |-> "none", return_type_line |-> FALSE]
    /\ total_tries = 0
    /\ attempt = 0
    /\ response = NoResponse
    /\ delay = 0
    /\ sleep_reason = "none"
    /\ result = NoValue
    /\ exc = NoExc
    /\ outcome = "running"
    /\ trips = 0
    /\ slept = <<>>
    /\ nErrors = 0
    /\ nRejects = 0
    /\ raises = 0
    /\ last_outcome = "none"
    /\ type_checked = FALSE

FreshLocalsKeepsBackoff ==
    /\ response' = NoResponse
    /\ delay' = delay
    /\ sleep_reason' = "none"
    /\ result' = NoValue
    /\ exc' = NoExc
    /\ outcome' = "running"
    /\ trips' = 0
    /\ slept' = slept
    /\ nErrors' = 0
    /\ nRejects' = 0
    /\ raises' = 0
    /\ last_outcome' = "none"
    /\ type_checked' = FALSE

\* A call starts with fresh locals.
FreshLocals ==
    /\ response' = NoResponse
    /\ delay' = 0
    /\ sleep_reason' = "none"
    /\ result' = NoValue
    /\ exc' = NoExc
    /\ outcome' = "running"
    /\ trips' = 0
    /\ slept' = <<>>
    /\ nErrors' = 0
    /\ nRejects' = 0
    /\ raises' = 0
    /\ last_outcome' = "none"
    /\ type_checked' = FALSE

\* vibe_eval_statement up to the first loop test.
EvalStatementStart ==
    /\ pc \in {"idle", "done"}
    /\ op' = "eval"
    /\ return_annotation' = "empty"
    /\ return_type' = "None"
    /\ prompt' = [kind |-> "statement", return_type_line |-> FALSE]
    /\ total_tries' = TotalTries(config)
    /\ attempt' = 1
    /\ pc' = "loop"
    /\ FreshLocals
    /\ log' = <<>>
    /\ prev_outcome' = (IF pc = "done" THEN outcome ELSE "none")
    /\ UNCHANGED wrapper

\* vibe_call_function up to the first loop test: return_type, the prompt
\* with or without its "Return Type" line, total_tries.
CallFunctionStart ==
    /\ pc \in {"idle", "done"}
    /\ \E ann \in Annotations :
        /\ return_annotation' = ann
        /\ return_type' = ReturnTypeOf(ann)
        /\ prompt' = [kind |-> "function",
                      return_type_line |-> ReturnTypeLine(ReturnTypeOf(ann))]
    /\ op' = "call"
    /\ total_tries' = TotalTries(config)
    /\ attempt' = 1
    /\ pc' = "loop"
    /\ FreshLocals
    /\ log' = <<>>
    /\ prev_outcome' = (IF pc = "done" THEN outcome ELSE "none")
    /\ UNCHANGED wrapper

AttemptStartAtLeastOnce(o) ==
    /\ pc = "loop"
    /\ op = o
    /\ attempt <= total_tries \/ attempt = 1
    /\ pc' = "inflight"
    /\ trips' = trips + 1
    /\ last_outcome' = "pending"
    /\ response' = NoResponse
    /\ log' = Append(log, AttemptLine(attempt, total_tries))
    /\ UNCHANGED <<wrapper, prev_outcome, signature,
                   attempt, delay,
                   sleep_reason, result, exc, outcome, slept, nErrors,
                   nRejects, raises, type_checked>>

\* Top of an iteration: the attempt line is logged and generate_content is
\* called.  The response of the previous iteration is not read again, so
\* response is unbound until this round trip returns.
AttemptStart(o) ==
    /\ pc = "loop"
    /\ op = o
    /\ attempt <= total_tries
    /\ pc' = "inflight"
    /\ trips' = trips + 1
    /\ last_outcome' = "pending"
    /\ response' = NoResponse
    /\ log' = Append(log, AttemptLine(attempt, total_tries))
    /\ UNCHANGED <<wrapper, prev_outcome, signature,
                   attempt, delay, sleep_reason,
                   result, exc, outcome, slept, nErrors, nRejects, raises,
                   type_checked>>

\* generate_content returns a response object.
RoundTripReturns(o) ==
    /\ pc = "inflight"
    /\ op = o
    /\ \E r \in Responses : response' = r
    /\ pc' = "interpret"
    /\ UNCHANGED <<wrapper, prev_outcome, log, signature,
                   attempt, delay, sleep_reason, result,
                   exc, outcome, trips, slept, nErrors, nRejects, raises,
                   last_outcome, type_checked>>

\* generate_content raises an Exception.
RoundTripRaises(o) ==
    /\ pc = "inflight"
    /\ op = o
    /\ pc' = "except"
    /\ UNCHANGED <<wrapper, prev_outcome, log, signature,
                   attempt, response, delay, sleep_reason,
                   result, exc, outcome, trips, slept, nErrors, nRejects,
                   raises, last_outcome, type_checked>>

BackoffNever(reason) ==
    /\ pc' = "loop"
    /\ attempt' = attempt + 1
    /\ UNCHANGED <<delay, sleep_reason>>

BackoffAlways(reason) ==
    /\ delay' = BackoffDelay(config, attempt)
    /\ sleep_reason' = reason
    /\ pc' = "sleep"
    /\ UNCHANGED attempt

\* if attempt < total_tries: compute the delay, log it, sleep; otherwise go
\* on to the next iteration.
Backoff(reason) ==
    IF attempt < total_tries
    THEN /\ delay' = BackoffDelay(config, attempt)
         /\ sleep_reason' = reason
         /\ pc' = "sleep"
         /\ UNCHANGED attempt
    ELSE /\ pc' = "loop"
         /\ attempt' = attempt + 1
         /\ UNCHANGED <<delay, sleep_reason>>

BackoffLinesWrongReason(reason) ==
    IF attempt < total_tries
    THEN <<BackoffLine(attempt, BackoffDelay(config, attempt), "API error")>>
    ELSE <<>>

\* The backoff line, logged only on the branch that sleeps.
BackoffLines(reason) ==
    IF attempt < total_tries
    THEN <<BackoffLine(attempt, BackoffDelay(config, attempt), reason)>>
    ELSE <<>>

ExceptHandlerNoBackoff(o) ==
    /\ pc = "except"
    /\ op = o
    /\ nErrors' = nErrors + 1
    /\ last_outcome' = "error"
    /\ pc' = "loop"
    /\ attempt' = attempt + 1
    /\ log' = log \o <<ApiErrorLine(attempt)>>
    /\ UNCHANGED <<wrapper, prev_outcome, signature,
                   response, delay,
                   sleep_reason, result, exc, outcome, trips, slept, nRejects,
                   raises, type_checked>>

ExceptHandlerPropagates(o) ==
    /\ pc = "except"
    /\ op = o
    /\ pc' = "done"
    /\ outcome' = "raised"
    /\ exc' = [cls |-> "APIError", msg |-> <<>>]
    /\ raises' = raises + 1
    /\ nErrors' = nErrors + 1
    /\ last_outcome' = "error"
    /\ log' = log \o <<ApiErrorLine(attempt)>>
    /\ UNCHANGED <<wrapper, prev_outcome, signature,
                   attempt, response, delay, sleep_reason,
                   result, trips, slept, nRejects, type_checked>>

\* except Exception: log, back off unless this was the last attempt, continue.
ExceptHandler(o) ==
    /\ pc = "except"
    /\ op = o
    /\ nErrors' = nErrors + 1
    /\ last_outcome' = "error"
    /\ Backoff("API error")
    /\ log' = log \o <<ApiErrorLine(attempt)>> \o BackoffLines("API error")
    /\ UNCHANGED <<wrapper, prev_outcome, signature,
                   response, result, exc, outcome, trips,
                   slept, nRejects, raises, type_checked>>

SleepWithoutAdvance(o) ==
    /\ pc = "sleep"
    /\ op = o
    /\ slept' = IF Len(slept) < total_tries THEN Append(slept, delay) ELSE slept
    /\ pc' = "loop"
    /\ UNCHANGED <<wrapper, prev_outcome, log, signature,
                   attempt, response, delay, sleep_reason,
                   result, exc, outcome, trips, nErrors, nRejects, raises,
                   last_outcome, type_checked>>

\* time.sleep(delay) returns and the loop moves to the next attempt.
Sleep(o) ==
    /\ pc = "sleep"
    /\ op = o
    /\ slept' = Append(slept, delay)
    /\ attempt' = attempt + 1
    /\ pc' = "loop"
    /\ UNCHANGED <<wrapper, prev_outcome, log, signature,
                   response, delay, sleep_reason, result,
                   exc, outcome, trips, nErrors, nRejects, raises,
                   last_outcome, type_checked>>

ReturnWithoutLeaving(value, checked) ==
    /\ result' = value
    /\ type_checked' = checked
    /\ last_outcome' = "accepted"
    /\ pc' = "loop"
    /\ attempt' = attempt + 1
    /\ UNCHANGED <<outcome, delay, sleep_reason, nRejects>>

\* An accepted attempt: the call returns value.
Return(value, checked) ==
    /\ result' = value
    /\ type_checked' = checked
    /\ outcome' = "returned"
    /\ last_outcome' = "accepted"
    /\ pc' = "done"
    /\ UNCHANGED <<attempt, delay, sleep_reason, nRejects>>

\* A rejected attempt: back off unless this was the last attempt.
Reject(reason) ==
    /\ nRejects' = nRejects + 1
    /\ last_outcome' = "rejected"
    /\ Backoff(reason)
    /\ UNCHANGED <<result, type_checked, outcome>>

EvalInterpretLastAttemptLenient ==
    /\ pc = "interpret"
    /\ op = "eval"
    /\ LET verdict == EvalVerdict(response)
       IN  IF verdict.tag = "bool"
           THEN Return(verdict, FALSE)
           ELSE IF attempt = total_tries
                THEN Return(VBool(FALSE), FALSE)
                ELSE Reject("no boolean found")
    /\ log' = log \o <<ResponseLine(attempt)>>
                \o (IF last_outcome' = "accepted" THEN <<>>
                    ELSE BackoffLines("no boolean found"))
    /\ UNCHANGED <<wrapper, prev_outcome, signature,
                   response, exc, trips, slept,
                   nErrors, raises>>

\* vibe_eval_statement after a round trip that returned.
EvalInterpret ==
    /\ pc = "interpret"
    /\ op = "eval"
    /\ LET verdict == EvalVerdict(response)
       IN  IF verdict.tag = "bool"
           THEN Return(verdict, FALSE)
           ELSE Reject("no boolean found")
    /\ log' = log \o <<ResponseLine(attempt)>>
                \o (IF EvalVerdict(response).tag = "bool" THEN <<>>
                    ELSE BackoffLines("no boolean found"))
    /\ UNCHANGED <<wrapper, prev_outcome, signature,
                   response, exc, trips, slept, nErrors,
                   raises>>

\* An exception other than the exhaustion failure reaches the caller.
Escape(cls) ==
    /\ exc' = [cls |-> cls, msg |-> <<>>]
    /\ raises' = raises + 1
    /\ outcome' = "raised"
    /\ last_outcome' = "rejected"
    /\ nRejects' = nRejects + 1
    /\ pc' = "done"
    /\ UNCHANGED <<attempt, delay, sleep_reason, result, type_checked>>

CallInterpretMismatchRaises ==
    /\ pc = "interpret"
    /\ op = "call"
    /\ LET raw_text == CallRawText(response)
           value == MaybeCoerce(raw_text, return_type)
       IN  IF return_type = "None"
           THEN Return(VStr(raw_text), FALSE) /\ UNCHANGED <<exc, raises>>
           ELSE IF IsMatch(value, return_type)
                THEN Return(value, TRUE) /\ UNCHANGED <<exc, raises>>
                ELSE Escape("TypeError")
    /\ log' = log \o <<ResponseLine(attempt)>>
                \o (IF \/ return_type = "None"
                       \/ IsMatch(MaybeCoerce(CallRawText(response), return_type),
                                  return_type)
                    THEN <<>>
                    ELSE <<MismatchLine(attempt)>> \o BackoffLines("type mismatch"))
    /\ UNCHANGED <<wrapper, prev_outcome, signature,
                   response, trips, slept, nErrors>>

CallInterpretRejectsEmpty ==
    /\ pc = "interpret"
    /\ op = "call"
    /\ LET raw_text == CallRawText(response)
           value == MaybeCoerce(raw_text, return_type)
       IN  IF return_type = "None" /\ raw_text # <<>>
           THEN Return(VStr(raw_text), FALSE)
           ELSE IF return_type # "None" /\ IsMatch(value, return_type)
                THEN Return(value, TRUE)
                ELSE Reject("type mismatch")
    /\ log' = log \o <<ResponseLine(attempt)>>
                \o (IF last_outcome' = "accepted" THEN <<>>
                    ELSE <<MismatchLine(attempt)>> \o BackoffLines("type mismatch"))
    /\ UNCHANGED <<wrapper, prev_outcome, signature,
                   response, exc, trips, slept, nErrors,
                   raises>>

\* vibe_call_function after a round trip that returned.
CallInterpret ==
    /\ pc = "interpret"
    /\ op = "call"
    /\ LET raw_text == CallRawText(response)
           value == MaybeCoerce(raw_text, return_type)
       IN  IF return_type = "None"
           THEN Return(VStr(raw_text), FALSE)
           ELSE IF IsMatch(value, return_type)
                THEN Return(value, TRUE)
                ELSE Reject("type mismatch")
    /\ log' = log \o <<ResponseLine(attempt)>>
                \o (IF \/ return_type = "None"
                       \/ IsMatch(MaybeCoerce(CallRawText(response), return_type),
                                  return_type)
                    THEN <<>>
                    ELSE <<MismatchLine(attempt)>> \o BackoffLines("type mismatch"))
    /\ UNCHANGED <<wrapper, prev_outcome, signature,
                   response, exc, trips, slept, nErrors,
                   raises>>

\* The loop ran out of attempts: the raise after the for statement.
RaiseExhausted(o) ==
    /\ pc = "loop"
    /\ op = o
    /\ attempt > total_tries
    /\ exc' = IF o = "eval" THEN EvalFailure ELSE CallFailure(return_type)
    /\ raises' = raises + 1
    /\ outcome' = "raised"
    /\ pc' = "done"
    /\ UNCHANGED <<wrapper, prev_outcome, log, signature,
                   attempt, response, delay, sleep_reason,
                   result, trips, slept, nErrors, nRejects, last_outcome,
                   type_checked>>

EvalAttemptStart == AttemptStart("eval")

EvalRoundTripReturns == RoundTripReturns("eval")

EvalRoundTripRaises == RoundTripRaises("eval")

EvalExceptHandler == ExceptHandler("eval")

EvalSleep == Sleep("eval")

EvalRaiseExhausted == RaiseExhausted("eval")

CallAttemptStart == AttemptStart("call")

CallRoundTripReturns == RoundTripReturns("call")

CallRoundTripRaises == RoundTripRaises("call")

CallExceptHandler == ExceptHandler("call")

CallSleep == Sleep("call")

CallRaiseExhausted == RaiseExhausted("call")

Next ==
    \/ EvalStatementStart
    \/ EvalAttemptStart
    \/ EvalRoundTripReturns
    \/ EvalRoundTripRaises
    \/ EvalExceptHandler
    \/ EvalInterpret
    \/ EvalSleep
    \/ EvalRaiseExhausted
    \/ CallFunctionStart
    \/ CallAttemptStart
    \/ CallRoundTripReturns
    \/ CallRoundTripRaises
    \/ CallExceptHandler
    \/ CallInterpret
    \/ CallSleep
    \/ CallRaiseExhausted

Spec == Init /\ [][Next]_vars

(* ============================== claims ================================= *)

Failure == "VibeResponseTypeException"

\* The documented configuration surface: num_tries >= 1, max_retries >= 0.
DocumentedConfig == config.num_tries >= 1 /\ config.max_retries >= 0

\* max(num_tries, max_retries + 1), written out from the configuration.
ConfiguredTotal ==
    IF config.num_tries >= config.max_retries + 1
    THEN config.num_tries
    ELSE config.max_retries + 1

InCall == pc # "idle"

\* C1: under the documented configuration, a call whose attempts are all
\* rejected makes exactly max(num_tries, max_retries + 1) round trips and
\* then raises VibeResponseTypeException once; the total is fixed at call
\* start, no call makes more round trips than that, and none raises before
\* the last attempt was made.
C1_ExhaustionAfterTotal ==
    (DocumentedConfig /\ InCall) =>
        /\ total_tries = ConfiguredTotal
        /\ trips <= ConfiguredTotal
        /\ raises <= 1
        /\ outcome = "raised" =>
            /\ trips = ConfiguredTotal
            /\ nErrors + nRejects = ConfiguredTotal
            /\ raises = 1
            /\ exc.cls = Failure
        /\ (pc = "done" /\ nErrors + nRejects = trips) => outcome = "raised"

C1_Witness ==
    /\ outcome = "raised"
    /\ op = "call"
    /\ return_type = "int"
    /\ config.num_tries = 1
    /\ config.max_retries = 2
    /\ trips = 3
    /\ nErrors = 1
    /\ nRejects = 2

\* The text of the response the latest attempt received.
LatestText == TextOrEmpty(response)

\* w occurs in t when letter case is ignored.
HasWordCI(t, w) ==
    \E i \in 1..(Len(t) - Len(w) + 1) :
        \A k \in 1..Len(w) : LowerChar(t[i + k - 1]) = w[k]

\* v is t without its leading and trailing whitespace.
IsStrippedOf(v, t) ==
    \E i \in 1..(Len(t) + 1) : \E j \in 0..Len(t) :
        /\ v = SubSeq(t, i, j)
        /\ \A k \in 1..Len(t) : (k < i \/ k > j) => t[k] \in Whitespace
        /\ Len(v) > 0 => (v[1] \notin Whitespace /\ v[Len(v)] \notin Whitespace)

\* The value statement evaluation or function simulation draws from text t.
DerivedFrom(t) ==
    IF op = "eval"
    THEN /\ result.tag = "bool"
         /\ result.val = HasWordCI(t, Str_true)
    ELSE IF return_type = "None"
    THEN /\ result.tag = "str"
         /\ IsStrippedOf(result.val, t)
    ELSE /\ result.tag = return_type
         /\ result = MaybeCoerce(Strip(t), return_type)

C2_AcceptedState ==
    /\ last_outcome = "accepted" => (pc = "done" /\ outcome = "returned")
    /\ outcome = "returned" =>
        /\ pc = "done"
        /\ last_outcome = "accepted"
        /\ trips = attempt
        /\ nErrors + nRejects = attempt - 1
        /\ Len(slept) = attempt - 1
        /\ raises = 0
        /\ exc = NoExc
        /\ DerivedFrom(LatestText)

\* C2: the attempt the interpreter accepts ends the call: the call returns
\* the value derived from that attempt's text, with as many round trips as
\* the attempt index, one sleep per earlier attempt and none after it, and
\* no exception; a finished call makes no further round trip or sleep.
C2_ReturnsOnAcceptance ==
    /\ []C2_AcceptedState
    /\ [][pc = "done" => (pc' = "loop" /\ trips' = 0 /\ slept' = <<>>)]_vars

C2_Witness ==
    /\ outcome = "returned"
    /\ op = "eval"
    /\ attempt = 3
    /\ nErrors = 1
    /\ nRejects = 1
    /\ response.text = Txt_BelieveFalse
    /\ result = VBool(FALSE)

\* C3: a round trip that raises never ends the call: the attempt counts as
\* rejected and the loop goes on to the backoff or to the next iteration;
\* the only exception a call lets out is VibeResponseTypeException, raised
\* after max(num_tries, max_retries + 1) attempts, also when every round
\* trip raised.
C3_TransportErrorAbsorbed ==
    /\ exc.cls \in {"none", Failure}
    /\ pc = "except" => outcome = "running"
    /\ last_outcome = "error" =>
        /\ pc \in {"sleep", "loop", "done"}
        /\ pc = "sleep" => attempt < total_tries
        /\ pc = "loop" => trips < attempt
        /\ pc = "done" => (outcome = "raised" /\ trips = total_tries)
    /\ (outcome = "raised" /\ nErrors > 0) =>
        /\ exc.cls = Failure
        /\ trips = ConfiguredTotal
        /\ nErrors + nRejects = trips

C3_Witness ==
    /\ outcome = "raised"
    /\ op = "eval"
    /\ nErrors = 3
    /\ trips = 3
    /\ exc = EvalFailure

\* C4: the k-th sleep of a call follows rejected attempt k and lasts
\* min(backoff_base * 2^(k-1), backoff_max), whether the attempt raised or
\* was rejected by interpretation; the delays of a call never decrease and
\* never exceed backoff_max.
C4_BackoffDelays ==
    /\ \A k \in 1..Len(slept) :
        /\ slept[k] = (IF config.backoff_base * (2 ^ (k - 1)) <= config.backoff_max
                       THEN config.backoff_base * (2 ^ (k - 1))
                       ELSE config.backoff_max)
        /\ slept[k] <= config.backoff_max
        /\ k > 1 => slept[k - 1] <= slept[k]
    /\ pc = "sleep" =>
        /\ Len(slept) = attempt - 1
        /\ delay = (IF config.backoff_base * (2 ^ (attempt - 1)) <= config.backoff_max
                    THEN config.backoff_base * (2 ^ (attempt - 1))
                    ELSE config.backoff_max)

C4_Witness ==
    /\ slept = <<2, 2>>
    /\ config.backoff_base = 2
    /\ config.backoff_max = 2
    /\ nErrors >= 1
    /\ nRejects >= 1

\* C5: a call sleeps exactly after each rejected attempt that is not the
\* last one: never before the first attempt, never after the final attempt,
\* never after an accepted attempt; an exhausted call has slept
\* max(num_tries, max_retries + 1) - 1 times.
C5_SleepIffRejectedBeforeLast ==
    InCall =>
        /\ Len(slept) <= nErrors + nRejects
        /\ pc = "sleep" =>
            /\ attempt < total_tries
            /\ last_outcome \in {"error", "rejected"}
            /\ Len(slept) = attempt - 1
        /\ pc \in {"inflight", "except", "interpret"} =>
            /\ Len(slept) = trips - 1
            /\ nErrors + nRejects = trips - 1
        /\ (pc = "loop" /\ attempt <= total_tries) => Len(slept) = attempt - 1
        /\ outcome = "returned" => Len(slept) = trips - 1
        /\ (outcome = "raised" /\ DocumentedConfig) =>
            /\ Len(slept) = ConfiguredTotal - 1
            /\ nErrors + nRejects = ConfiguredTotal

C5_Witness ==
    /\ outcome = "raised"
    /\ trips = 3
    /\ Len(slept) = 2
    /\ nErrors = 2
    /\ nRejects = 1

\* C6: a finished call either returned a value and raised nothing, or
\* raised one VibeResponseTypeException after its attempts ran out and
\* returned nothing.  With a declared return type, a text that does not
\* coerce to the type rejects the attempt and leaves the call running (or
\* exhausted): declared int, "forty-two" is rejected and " 42" is accepted
\* as 42.
C6_ValueOrExhaustionFailure ==
    /\ pc = "done" =>
        \/ /\ outcome = "returned"
           /\ raises = 0
           /\ exc = NoExc
           /\ result # NoValue
        \/ /\ outcome = "raised"
           /\ raises = 1
           /\ exc.cls = Failure
           /\ result = NoValue
           /\ attempt > total_tries
    /\ pc # "done" => (outcome = "running" /\ raises = 0 /\ exc = NoExc)
    /\ (op = "call" /\ return_type = "int"
            /\ last_outcome \in {"accepted", "rejected"}) =>
        /\ response.text = Txt_Words =>
            /\ last_outcome = "rejected"
            /\ nRejects >= 1
            /\ sleep_reason = "type mismatch" \/ attempt > total_tries
        /\ response.text = Txt_Digits =>
            /\ last_outcome = "accepted"
            /\ result = VInt(42)

C6_Witness ==
    /\ outcome = "returned"
    /\ op = "call"
    /\ return_type = "int"
    /\ nRejects = 2
    /\ nErrors = 0
    /\ response.text = Txt_Digits
    /\ result = VInt(42)

\* C7: statement evaluation accepts a text with True when it contains
\* "true" in any letter case, else with False when it contains "false" in
\* any letter case, else rejects it; a text with both gives True whichever
\* comes first.
C7_BooleanInterpretation ==
    (op = "eval" /\ last_outcome \in {"accepted", "rejected"}) =>
        /\ HasWordCI(LatestText, Str_true) =>
            (last_outcome = "accepted" /\ result = VBool(TRUE))
        /\ (~HasWordCI(LatestText, Str_true) /\ HasWordCI(LatestText, Str_false)) =>
            (last_outcome = "accepted" /\ result = VBool(FALSE))
        /\ (~HasWordCI(LatestText, Str_true) /\ ~HasWordCI(LatestText, Str_false)) =>
            (last_outcome = "rejected" /\ result = NoValue)
        /\ LatestText = Txt_YesTrue => result = VBool(TRUE)
        /\ LatestText = Txt_TrueAndFalse => result = VBool(TRUE)
        /\ LatestText = Txt_Unsure => last_outcome = "rejected"

C7_Witness ==
    /\ outcome = "returned"
    /\ op = "eval"
    /\ response.text = Txt_FalseThenTrue
    /\ result = VBool(TRUE)

\* C8: a value vibe_call_function returns for a signature with a return
\* annotation has passed the type check; unchecked text is returned only
\* for a signature without return annotation.
C8_DeclaredTypeIsChecked ==
    (outcome = "returned" /\ op = "call") =>
        /\ return_annotation # "empty" => type_checked
        /\ ~type_checked => return_annotation = "empty"

\* C9: without a return annotation, function simulation returns on the
\* first round trip that does not raise, with the stripped text whatever it
\* says; nothing is coerced or type-checked, no attempt is rejected, and the
\* call raises only when every attempt's round trip raised.
C9_UntypedAcceptsFirstText ==
    (op = "call" /\ return_annotation = "empty") =>
        /\ nRejects = 0
        /\ ~type_checked
        /\ sleep_reason # "type mismatch"
        /\ last_outcome # "rejected"
        /\ pc \in {"loop", "sleep"} => last_outcome \in {"none", "error"}
        /\ outcome = "returned" =>
            /\ trips = nErrors + 1
            /\ result.tag = "str"
            /\ IsStrippedOf(result.val, LatestText)
        /\ outcome = "raised" =>
            /\ nErrors = trips
            /\ DocumentedConfig => nErrors = ConfiguredTotal

C9_Witness ==
    /\ outcome = "returned"
    /\ op = "call"
    /\ return_annotation = "empty"
    /\ nErrors = 2
    /\ response.text = Txt_Hello
    /\ result = VStr(<<"h", "e", "l", "l", "o">>)

\* The message names t as what was expected.
Names(msg, t) == \E i \in 1..Len(msg) : msg[i] = t

Running == pc \in {"loop", "inflight", "except", "interpret", "sleep"}

\* The steps of the retry loop other than interpretation.
LoopStep ==
    \/ EvalAttemptStart \/ EvalRoundTripReturns \/ EvalRoundTripRaises
    \/ EvalExceptHandler \/ EvalSleep \/ EvalRaiseExhausted
    \/ CallAttemptStart \/ CallRoundTripReturns \/ CallRoundTripRaises
    \/ CallExceptHandler \/ CallSleep \/ CallRaiseExhausted

\* The calling thread keeps running: every round trip and every sleep
\* returns (weak fairness of the loop steps), and an interpretation, which
\* is a terminating computation and the only step out of "interpret", does
\* not stay pending forever.
FairSpec ==
    /\ Init
    /\ [][Next]_vars
    /\ WF_vars(LoopStep)
    /\ []<>(pc # "interpret")

\* Steps left before the call must have ended, from the loop position.
StepsLeft ==
    4 * (IF total_tries + 1 >= attempt THEN total_tries + 1 - attempt ELSE 0)
        + (CASE pc = "loop" -> 4
             [] pc = "inflight" -> 3
             [] pc \in {"except", "interpret"} -> 2
             [] pc = "sleep" -> 1
             [] OTHER -> 0)

C11_Bounded ==
    InCall =>
        /\ trips <= (IF ConfiguredTotal >= 0 THEN ConfiguredTotal ELSE 0)
        /\ Len(slept) <= (IF ConfiguredTotal >= 1 THEN ConfiguredTotal - 1 ELSE 0)
        /\ attempt >= 1
        /\ pc \in {"inflight", "except", "interpret", "sleep"} => trips = attempt

\* C11: every call ends, by acceptance or by exhaustion, after at most
\* max(num_tries, max_retries + 1) round trips and one sleep fewer; within a
\* call the attempt index only ever grows by one, the round trip of an
\* iteration carries that index, and every step of the call brings its end
\* nearer.
C11_CallTerminates ==
    /\ Running ~> (pc = "done" /\ outcome \in {"returned", "raised"})
    /\ []C11_Bounded
    /\ [][Running =>
            /\ StepsLeft' < StepsLeft
            /\ attempt' \in {attempt, attempt + 1}
            /\ trips' \in {trips, trips + 1}
            /\ trips' = trips + 1 => trips' = attempt]_vars

C11_Witness ==
    /\ pc = "done"
    /\ outcome = "raised"
    /\ config.num_tries = 3
    /\ config.max_retries = 2
    /\ trips = 3
    /\ Len(slept) = 2

\* The delay the configuration gives for a sleep after attempt i.
ConfiguredDelay(i) ==
    IF config.backoff_base * (2 ^ (i - 1)) <= config.backoff_max
    THEN config.backoff_base * (2 ^ (i - 1))
    ELSE config.backoff_max

\* Where a call stands is fixed by its loop position alone, whatever the
\* kinds of its rejected attempts.
C12_KindBlindState ==
    /\ Running =>
        /\ trips = (IF pc = "loop" THEN attempt - 1 ELSE attempt)
        /\ Len(slept) = (IF pc = "loop" /\ attempt > total_tries
                         THEN (IF total_tries >= 1 THEN total_tries - 1 ELSE 0)
                         ELSE attempt - 1)
        /\ \A k \in 1..Len(slept) : slept[k] = ConfiguredDelay(k)
    /\ outcome = "raised" =>
        /\ exc = (IF op = "eval" THEN EvalFailure ELSE CallFailure(return_type))
        /\ trips = (IF total_tries >= 0 THEN total_tries ELSE 0)

\* C12: an attempt whose round trip raised and an attempt rejected by
\* interpretation continue the same way: with attempts left the call goes to
\* sleep for the delay of that attempt index, otherwise to the end of the
\* loop, without a round trip, sleep or outcome of its own; round trips,
\* sleeps and the final failure depend on the attempt index only.
C12_SameRetryPath ==
    /\ []C12_KindBlindState
    /\ [][(last_outcome = "pending" /\ last_outcome' \in {"error", "rejected"}) =>
            /\ trips' = trips
            /\ slept' = slept
            /\ outcome' = outcome
            /\ exc' = exc
            /\ IF attempt < total_tries
               THEN /\ pc' = "sleep"
                    /\ attempt' = attempt
                    /\ delay' = ConfiguredDelay(attempt)
               ELSE /\ pc' = "loop"
                    /\ attempt' = attempt + 1
                    /\ delay' = delay]_vars

C12_Witness ==
    /\ pc = "sleep"
    /\ attempt = 2
    /\ last_outcome = "error"
    /\ nErrors = 1
    /\ nRejects = 1
    /\ delay = ConfiguredDelay(2)
    /\ slept = <<ConfiguredDelay(1)>>

C13_AlternationState ==
    InCall =>
        /\ pc = "inflight" => (trips = attempt /\ Len(slept) = trips - 1)
        /\ pc = "sleep" =>
            /\ Len(slept) = trips - 1
            /\ last_outcome \in {"error", "rejected"}

\* C13: round trips and sleeps of a call alternate: a round trip starts at
\* the top of the loop when the previous one has been settled and, unless it
\* is the first, one sleep per earlier round trip has completed; a sleep
\* starts only after the round trip of its attempt has returned or raised,
\* and nothing else happens while a round trip is in flight.
C13_RoundTripsAndSleepsAlternate ==
    /\ []C13_AlternationState
    /\ [][/\ trips' = trips + 1 =>
                /\ pc = "loop"
                /\ pc' = "inflight"
                /\ last_outcome # "pending"
                /\ Len(slept) = trips
          /\ (Running /\ slept' # slept) =>
                /\ pc = "sleep"
                /\ pc' = "loop"
                /\ Len(slept') = trips
                /\ trips' = trips
          /\ pc = "inflight" =>
                /\ pc' \in {"interpret", "except"}
                /\ trips' = trips
                /\ slept' = slept]_vars

C13_Witness ==
    /\ pc = "inflight"
    /\ trips = 3
    /\ Len(slept) = 2
    /\ nErrors = 1
    /\ nRejects = 1

\* C14: the prompt of function simulation has the "Return Type" line
\* exactly when the signature has a return annotation, and a returned value
\* was type-checked exactly when the prompt had the line.
C14_ReturnTypeLineIffDeclared ==
    (InCall /\ op = "call") =>
        /\ prompt.return_type_line <=> (return_annotation # "empty")
        /\ outcome = "returned" => (prompt.return_type_line <=> type_checked)

IsAttemptLine(l) == l.line = "attempt"

IsBackoffLine(l) == l.line = "backoff"

AttemptLines == SelectSeq(log, IsAttemptLine)

LoggedBackoffLines == SelectSeq(log, IsBackoffLine)

\* The reason a backoff line must give after the line before it.
ReasonAfter(l) ==
    CASE l.line = "api error" -> "API error"
      [] l.line = "response" /\ op = "eval" -> "no boolean found"
      [] l.line = "mismatch" /\ op = "call" -> "type mismatch"
      [] OTHER -> "no backoff here"

\* C15: the log of a call has one attempt line per round trip, written
\* before the round trip with its index and the total; one backoff line per
\* sleep, written last before the sleep with that sleep's delay, and none
\* where no sleep follows; each backoff line gives the reason that fits the
\* attempt just rejected: API error after a round trip that raised, no
\* boolean found in statement evaluation, type mismatch in function
\* simulation.
C15_LogSequence ==
    InCall =>
        /\ Len(AttemptLines) = trips
        /\ \A k \in 1..Len(AttemptLines) :
            /\ AttemptLines[k].attempt = k
            /\ AttemptLines[k].total = total_tries
        /\ trips > 0 => IsAttemptLine(log[1])
        /\ pc = "inflight" =>
            (IsAttemptLine(log[Len(log)]) /\ log[Len(log)].attempt = trips)
        /\ Len(LoggedBackoffLines) = Len(slept) + (IF pc = "sleep" THEN 1 ELSE 0)
        /\ \A k \in 1..Len(LoggedBackoffLines) :
            /\ LoggedBackoffLines[k].attempt = k
            /\ LoggedBackoffLines[k].delay = (IF k <= Len(slept) THEN slept[k] ELSE delay)
        /\ pc = "sleep" =>
            /\ IsBackoffLine(log[Len(log)])
            /\ log[Len(log)].reason = sleep_reason
        /\ \A i \in 1..Len(log) :
            IsBackoffLine(log[i]) =>
                /\ i > 1
                /\ log[i - 1].attempt = log[i].attempt
                /\ log[i].reason = ReasonAfter(log[i - 1])
                /\ i < Len(log) =>
                    (IsAttemptLine(log[i + 1])
                        /\ log[i + 1].attempt = log[i].attempt + 1)

C15_Witness ==
    /\ op = "call"
    /\ pc = "sleep"
    /\ Len(log) = 7
    /\ log[3].reason = "API error"
    /\ log[6].line = "mismatch"
    /\ log[7].reason = "type mismatch"

C16_FreshCallState ==
    /\ pc = "loop" /\ attempt = 1 =>
        /\ trips = 0
        /\ slept = <<>>
        /\ delay = 0
        /\ log = <<>>
        /\ total_tries = ConfiguredTotal
    /\ pc = "inflight" /\ trips = 1 => (attempt = 1 /\ slept = <<>>)
    /\ (prev_outcome # "none" /\ DocumentedConfig /\ outcome = "raised") =>
        (trips = ConfiguredTotal /\ Len(slept) = ConfiguredTotal - 1)

\* C16: a call never changes the wrapper's client, model or configuration,
\* and every call, also one that follows a returned or an exhausted call,
\* starts at attempt 1 with no round trip made and nothing slept, and has
\* the whole of max(num_tries, max_retries + 1) attempts.
C16_CallsCarryNoState ==
    /\ []C16_FreshCallState
    /\ [][/\ client' = client
          /\ model' = model
          /\ config' = config
          /\ pc \in {"idle", "done"} =>
                /\ pc' = "loop"
                /\ attempt' = 1
                /\ trips' = 0
                /\ slept' = <<>>
                /\ delay' = 0
                /\ outcome' = "running"
                /\ total_tries' = ConfiguredTotal]_vars

C16_Witness ==
    /\ prev_outcome = "raised"
    /\ outcome = "raised"
    /\ config.num_tries = 3
    /\ trips = 3
    /\ slept = <<ConfiguredDelay(1), ConfiguredDelay(2)>>

\* The latest attempt's response has no text: the attribute is absent or
\* the text is empty.
LatestTextMissing == ~response.has_text \/ response.text = <<>>

\* C17: a response without text is interpreted as the empty text and is
\* not an error: statement evaluation rejects the attempt for want of a
\* boolean and retries it with backoff, function simulation without a
\* return annotation accepts it and returns the empty text at once.
C17_MissingTextIsEmptyText ==
    (last_outcome \in {"accepted", "rejected"} /\ LatestTextMissing) =>
        /\ \E i \in 1..Len(log) :
            log[i].line = "response" /\ log[i].attempt = trips
        /\ \A i \in 1..Len(log) :
            log[i].line = "api error" => log[i].attempt # trips
        /\ op = "eval" =>
            /\ last_outcome = "rejected"
            /\ pc \in {"sleep", "loop", "inflight", "done"}
            /\ pc = "sleep" =>
                (sleep_reason = "no boolean found" /\ attempt < total_tries)
            /\ outcome = "raised" => (exc = EvalFailure /\ trips = total_tries)
        /\ (op = "call" /\ return_annotation = "empty") =>
            /\ last_outcome = "accepted"
            /\ outcome = "returned"
            /\ result = VStr(<<>>)
            /\ trips = nErrors + 1

C17_Witness ==
    /\ op = "eval"
    /\ pc = "sleep"
    /\ ~response.has_text
    /\ last_outcome = "rejected"
    /\ sleep_reason = "no boolean found"
    /\ nErrors = 0

\* C18: with num_tries >= 1 and max_retries >= 0 the total is at least 1
\* and the failure is never raised before a round trip was made; a call
\* raises with no round trip and no sleep exactly when
\* max(num_tries, max_retries + 1) <= 0, which those constraints exclude.
C18_NoFailureBeforeFirstAttempt ==
    /\ DocumentedConfig => ConfiguredTotal >= 1
    /\ (DocumentedConfig /\ outcome = "raised") => trips >= 1
    /\ outcome = "raised" => (trips = 0 <=> ConfiguredTotal <= 0)
    /\ (outcome = "raised" /\ trips = 0) => (slept = <<>> /\ ~DocumentedConfig)
    /\ (ConfiguredTotal <= 0 /\ InCall) =>
        /\ trips = 0
        /\ slept = <<>>
        /\ pc = "done" => outcome = "raised"

C18_Witness ==
    /\ outcome = "raised"
    /\ config.num_tries = 0
    /\ config.max_retries = 0 - 1
    /\ trips = 0
    /\ slept = <<>>

\* C19: whether the latest text was accepted, and with which value, is a
\* function of the text and the target (boolean, or the declared return
\* type) alone: the same at every attempt index, after any earlier attempts
\* and under every configuration.
C19_VerdictDependsOnTextOnly ==
    last_outcome \in {"accepted", "rejected"} =>
        /\ op = "eval" =>
            /\ last_outcome = "accepted" <=>
                (HasWordCI(LatestText, Str_true) \/ HasWordCI(LatestText, Str_false))
            /\ last_outcome = "accepted" =>
                result = VBool(HasWordCI(LatestText, Str_true))
        /\ op = "call" =>
            /\ last_outcome = "accepted" <=>
                \/ return_type = "None"
                \/ IsMatch(MaybeCoerce(Strip(LatestText), return_type), return_type)
            /\ last_outcome = "accepted" =>
                result = (IF return_type = "None" THEN VStr(Strip(LatestText))
                          ELSE MaybeCoerce(Strip(LatestText), return_type))

C19_Witness ==
    /\ op = "eval"
    /\ trips = 3
    /\ total_tries = 3
    /\ last_outcome = "rejected"
    /\ nRejects = 3
    /\ response.text = Txt_Unsure

=============================================================================
